---- MODULE Spec2Model ----
(***************************************************************************)
(* Model of the yomihon native OCR engine:                                 *)
(*   - OcrInference::InferTokens, the greedy decode loop                   *)
(*     (ocr_inference.cpp), under the specification SpecInfer;             *)
(*   - OcrInference::Initialize / Close / ~OcrInference and the shared     *)
(*     GPU environment (ocr_inference.cpp), under SpecEngine;              *)
(*   - the JNI boundary nativeOcrInit / nativeOcrClose (ocr_native.cpp),   *)
(*     under SpecJni.                                                      *)
(* The tensor sizes are scaled down (see the size definitions below); all  *)
(* formulas are written against the names, not the numbers.                *)
(***************************************************************************)
EXTENDS Integers, Sequences, FiniteSets, TLC

(* ---------------------------------------------------------------------- *)
(* Sizes.  MAX_SEQUENCE_LENGTH, VOCAB_SIZE and HIDDEN_SIZE are 300, 6144   *)
(* and 768 in ocr_inference.h; the model keeps their roles and scales the  *)
(* numbers so that the decode loop can be explored exhaustively.           *)
(* ---------------------------------------------------------------------- *)
MAX_SEQUENCE_LENGTH == 8
VOCAB_SIZE == 6
HIDDEN_SIZE == 2
START_TOKEN_ID == 2
END_TOKEN_ID == 3
PAD_TOKEN_ID == 0

\* InferTokens calls per run: under SpecInfer (every argument and failure),
\* and under SpecRepeat (a reduced set of arguments and failures).
MaxCalls == 2
MaxRepeatCalls == 3

\* Two distinct image tensors (image 0 is the zero-filled warmup image).
Images == {0, 1}
Positions == 0..(MAX_SEQUENCE_LENGTH - 1)
Vocab == 0..(VOCAB_SIZE - 1)
EmbIndex == 0..(MAX_SEQUENCE_LENGTH * HIDDEN_SIZE - 1)
LogitIndex == 0..(MAX_SEQUENCE_LENGTH * VOCAB_SIZE - 1)

\* The max_tokens arguments tried: the degenerate capacities, a small one,
\* one below and one at the sequence limit, and one above it.
MaxTokensArgs == {0, 1, 3, MAX_SEQUENCE_LENGTH - 1, MAX_SEQUENCE_LENGTH, MAX_SEQUENCE_LENGTH + 1}
RepeatTokensArgs == {3, MAX_SEQUENCE_LENGTH}

\* The compiled decoder models tried (each a deterministic function).
Models == {"never_end", "end_first", "end_by_count", "end_by_row", "flat"}

\* Failure injected into the encoder stage of a call / into one decode step.
StageOutcomes == {"ok", "enc_write", "enc_run", "enc_read", "hidden_write", "exception"}
StepOutcomes == {"ok", "mask_write", "emb_write", "dec_run", "logits_read", "exception"}
RepeatStageOutcomes == {"ok", "enc_read", "hidden_write"}
RepeatStepOutcomes == {"ok", "emb_write", "logits_read", "exception"}

Min(a, b) == IF a < b THEN a ELSE b

ZeroMask == [i \in Positions |-> 0]
ZeroEmb == [k \in EmbIndex |-> 0]
ZeroLogits == [k \in LogitIndex |-> 0]

(* ---------------------------------------------------------------------- *)
(* Pure helpers of ocr_inference.cpp                                       *)
(* ---------------------------------------------------------------------- *)

\* embeddings_data_[k]: the embedding asset read as a flat float array.
\* Every entry is non-zero and distinct, so a copied row identifies its token.
EmbeddingsData(k) == k + 1

\* memcpy of HIDDEN_SIZE floats from row token_id of the asset to row index
\* of embeddings_input_.
UpdateEmbedding(emb, token_id, index) ==
    [k \in EmbIndex |->
        IF k >= index * HIDDEN_SIZE /\ k < (index + 1) * HIDDEN_SIZE
        THEN EmbeddingsData(token_id * HIDDEN_SIZE + (k - index * HIDDEN_SIZE))
        ELSE emb[k]]

\* The scan of FindMaxLogitToken from vocab_idx on, with the running maximum.
RECURSIVE ArgmaxScan(_, _, _, _, _)
ArgmaxScan(logits, base, vocab_idx, max_logit, max_token) ==
    IF vocab_idx >= VOCAB_SIZE THEN max_token
    ELSE IF logits[base + vocab_idx] > max_logit
         THEN ArgmaxScan(logits, base, vocab_idx + 1, logits[base + vocab_idx], vocab_idx)
         ELSE ArgmaxScan(logits, base, vocab_idx + 1, max_logit, max_token)

\* Variant: on ties the last maximal index wins (>= in place of >).
FindMaxLogitToken_lastWins(logits, seq_len) ==
    LET base == (seq_len - 1) * VOCAB_SIZE
    IN  CHOOSE v \in Vocab :
            /\ \A u \in Vocab : logits[base + u] <= logits[base + v]
            /\ \A u \in Vocab : u > v => logits[base + u] < logits[base + v]

FindMaxLogitToken(logits, seq_len) ==
    LET last_token_pos == seq_len - 1
        base == last_token_pos * VOCAB_SIZE
    IN  ArgmaxScan(logits, base, 1, logits[base], 0)

\* Variant: the embedding table is carried over from the previous call.
ResetEmbeddings_kept(emb) == emb

\* std::fill(..., 0.0f) of the two decoder-state arrays.
ResetEmbeddings(emb) == [k \in DOMAIN emb |-> 0]

\* Variant: the attention mask is carried over from the previous call.
ResetMask_kept(mask) == mask

ResetMask(mask) == [i \in DOMAIN mask |-> 0]

\* Variant: the loop bound is one iteration short.
LoopCond_short(st) == st < MAX_SEQUENCE_LENGTH - 2

\* for (step = 0; step < MAX_SEQUENCE_LENGTH - 1; ++step)
LoopCond(st) == st < MAX_SEQUENCE_LENGTH - 1

\* Variant: END is not tested and gets appended like any other token.
IsStopToken_noEnd(tok) == tok < 0

\* if (next_token < 0 || next_token == END_TOKEN_ID) break;
IsStopToken(tok) == tok < 0 \/ tok = END_TOKEN_ID

\* if (token_count >= max_tokens || token_count >= MAX_SEQUENCE_LENGTH) break;
StopAfterAppend(tc, mt) == tc >= mt \/ tc >= MAX_SEQUENCE_LENGTH

\* Variant: the loop counter does not advance.
NextStep_stuck(st) == st

\* ++step at the end of an iteration that did not break.
NextStep(st) == st + 1

\* Variant: the decoder is run twice in one step.
IterationsAfterRun_twice(n) == n + 2

\* decoder_iterations++ after a decoder run that returned a value.
IterationsAfterRun(n) == n + 1

\* Variant: a failed decode step discards the tokens, as the encoder stage does.
RetOnStepFailure_zero(kind, tc) == 0

\* What a decode step that does not complete makes InferTokens return: a
\* failed write/run/read breaks out of the loop (return token_count), a
\* thrown exception lands in the catch block (return 0).
RetOnStepFailure(kind, tc) == IF kind = "exception" THEN 0 ELSE tc

(* ---------------------------------------------------------------------- *)
(* The compiled models (LiteRT CompiledModel::Run), as deterministic       *)
(* functions of the input tensors                                          *)
(* ---------------------------------------------------------------------- *)

\* Encoder: image tensor -> hidden states (abstracted to one number).
EncoderRun(image) == image + 1

Ones(mask) == Cardinality({i \in Positions : mask[i] = 1})

RECURSIVE SumVisible(_, _, _)
SumVisible(mask, emb, i) ==
    IF i >= MAX_SEQUENCE_LENGTH THEN 0
    ELSE (IF mask[i] = 1 THEN emb[i * HIDDEN_SIZE] ELSE 0) + SumVisible(mask, emb, i + 1)

\* The vocabulary entry the decoder favours at logits row r.
DecoderTarget(m, hidden, mask, emb, r) ==
    CASE m = "never_end"    -> 4 + ((SumVisible(mask, emb, 0) + hidden + r) % 2)
      [] m = "end_first"    -> END_TOKEN_ID
      [] m = "end_by_count" -> IF Ones(mask) > hidden + 1 THEN END_TOKEN_ID ELSE 5
      [] m = "end_by_row"   -> IF r > hidden THEN END_TOKEN_ID ELSE 4
      [] OTHER              -> 0

\* Decoder: (hidden states, attention mask, embeddings) -> logits, a flat
\* [MAX_SEQUENCE_LENGTH x VOCAB_SIZE] array.  The favoured entry and the
\* last vocabulary entry tie for the maximum; "flat" gives all-equal rows.
DecoderRun(m, hidden, mask, emb) ==
    [k \in LogitIndex |->
        LET r == k \div VOCAB_SIZE
            v == k % VOCAB_SIZE
        IN  IF m = "flat" THEN 0
            ELSE IF v = DecoderTarget(m, hidden, mask, emb, r) \/ v = VOCAB_SIZE - 1
                 THEN 3
                 ELSE v % 2]

(* ---------------------------------------------------------------------- *)
(* State of one initialized engine running InferTokens                     *)
(* ---------------------------------------------------------------------- *)
VARIABLES
    model,                  \* the compiled decoder (fixed for a run)
    ipc,                    \* "idle" (between calls) or "loop" (in the decode loop)
    calls,                  \* InferTokens calls started
    image_data,             \* argument image_data of the current/last call
    max_tokens,             \* argument max_tokens of the current/last call
    out_tokens,             \* the caller's token buffer
    token_count,            \* local token_count
    step,                   \* loop variable step
    ret,                    \* return value of the last call
    embeddings_input_,      \* member embeddings_input_
    attention_mask_,        \* member attention_mask_
    encoder_hidden_states,  \* litert_->encoder_hidden_states
    decoder_logits,         \* litert_->decoder_logits
    enc_in,                 \* tensor buffer encoder_input_buffers[0]
    enc_out,                \* tensor buffer encoder_output_buffers[0]
    dec_in_hidden,          \* tensor buffer decoder_input_buffers[0]
    dec_in_mask,            \* tensor buffer decoder_input_buffers[1]
    dec_in_emb,             \* tensor buffer decoder_input_buffers[2]
    dec_out,                \* tensor buffer decoder_output_buffers[0]
    fail_kind,              \* history: failure injected into the current/last call
    fail_step,              \* history: decode step it was injected at (-1: encoder stage/none)
    end_step,               \* history: decode step at which END was selected (-1: none)
    decoder_iterations,     \* local decoder_iterations
    ref,                    \* history: inputs and result of the first clean call
    encoder_runs,           \* history: compiled_encoder->Run calls of the current/last call
    hidden_writes           \* history: writes of decoder_input_buffers[0] in that call

inferVars == <<model, ipc, calls, image_data, max_tokens, out_tokens, token_count,
               step, ret, embeddings_input_, attention_mask_, encoder_hidden_states,
               decoder_logits, enc_in, enc_out, dec_in_hidden, dec_in_mask,
               dec_in_emb, dec_out, fail_kind, fail_step, end_step,
               decoder_iterations, ref, encoder_runs, hidden_writes>>


NoRef == [set |-> FALSE, image |-> 0, max_tokens |-> 0, tokens |-> <<>>, between |-> FALSE]

\* The token sequence a call returned: the first ret entries of out_tokens.
Result == [i \in 1..ret |-> out_tokens[i - 1]]

\* The state Initialize leaves behind: zero-filled working arrays
\* (resize(..., 0.0f)) and the tensor buffers as PerformWarmup wrote them.
InitInferWith(models) ==
    /\ model \in models
    /\ ipc = "idle"
    /\ calls = 0
    /\ image_data = 0
    /\ max_tokens = 0
    /\ out_tokens = [i \in Positions |-> 0]
    /\ token_count = 0
    /\ step = 0
    /\ ret = 0
    /\ embeddings_input_ = ZeroEmb
    /\ attention_mask_ = ZeroMask
    /\ encoder_hidden_states = 0
    /\ decoder_logits = ZeroLogits
    /\ enc_in = 0
    /\ enc_out = EncoderRun(0)
    /\ dec_in_hidden = EncoderRun(0)
    /\ dec_in_mask = [i \in Positions |-> IF i = 0 THEN 1 ELSE 0]
    /\ dec_in_emb = ZeroEmb
    /\ dec_out = DecoderRun(model, EncoderRun(0),
                            [i \in Positions |-> IF i = 0 THEN 1 ELSE 0], ZeroEmb)
    /\ fail_kind = "none"
    /\ fail_step = -1
    /\ end_step = -1
    /\ decoder_iterations = 0
    /\ ref = NoRef
    /\ encoder_runs = 0
    /\ hidden_writes = 0

\* Bookkeeping at a return of InferTokens(img, ., mt) with value r and token
\* buffer toks: the first call without an injected failure becomes the
\* reference; "between" records that a later call had other arguments or failed.
RecordReturn(r, toks, kind, img, mt) ==
    IF ~ref.set
    THEN IF kind = "none"
         THEN [set |-> TRUE, image |-> img, max_tokens |-> mt,
               tokens |-> [i \in 1..r |-> toks[i - 1]], between |-> FALSE]
         ELSE ref
    ELSE IF kind # "none" \/ img # ref.image \/ mt # ref.max_tokens
         THEN [ref EXCEPT !.between = TRUE]
         ELSE ref

\* InferTokens from its entry to the first test of the loop condition:
\* encoder write/run/read, reset of the decoder state, START token,
\* write of the hidden states.
InferBegin(img, mt, f) ==
    /\ ipc = "idle"
    /\ calls' = calls + 1
    /\ image_data' = img
    /\ max_tokens' = mt
    /\ fail_kind' = IF f = "ok" THEN "none" ELSE f
    /\ fail_step' = -1
    /\ end_step' = -1
    /\ decoder_iterations' = 0
    /\ encoder_runs' = IF f \in {"enc_write", "exception"} THEN 0 ELSE 1
    /\ hidden_writes' = IF f = "ok" THEN 1 ELSE 0
    /\ UNCHANGED <<model, decoder_logits, dec_in_mask, dec_in_emb, dec_out>>
    /\ enc_in' = IF f = "enc_write" THEN enc_in ELSE img
    /\ enc_out' = IF f \in {"enc_write", "enc_run", "exception"} THEN enc_out
                  ELSE EncoderRun(img)
    /\ encoder_hidden_states' =
           IF f \in {"enc_write", "enc_run", "exception", "enc_read"}
           THEN encoder_hidden_states ELSE EncoderRun(img)
    /\ IF f \in {"enc_write", "enc_run", "exception", "enc_read"}
       THEN /\ UNCHANGED <<embeddings_input_, attention_mask_, out_tokens,
                           token_count, step, dec_in_hidden>>
            /\ ret' = 0
            /\ ipc' = "idle"
            /\ ref' = RecordReturn(0, out_tokens, f, img, mt)
       ELSE /\ embeddings_input_' =
                   UpdateEmbedding(ResetEmbeddings(embeddings_input_), START_TOKEN_ID, 0)
            /\ attention_mask_' = [ResetMask(attention_mask_) EXCEPT ![0] = 1]
            /\ out_tokens' = [out_tokens EXCEPT ![0] = START_TOKEN_ID]
            /\ token_count' = 1
            /\ step' = 0
            /\ IF f = "hidden_write"
               THEN /\ dec_in_hidden' = dec_in_hidden
                    /\ ret' = 0
                    /\ ipc' = "idle"
                    /\ ref' = RecordReturn(0, out_tokens', f, img, mt)
               ELSE /\ dec_in_hidden' = EncoderRun(img)
                    /\ ret' = IF LoopCond(0) THEN ret ELSE 1
                    /\ ipc' = IF LoopCond(0) THEN "loop" ELSE "idle"
                    /\ ref' = IF LoopCond(0) THEN ref
                              ELSE RecordReturn(1, out_tokens', "none", img, mt)

\* One iteration of the decode loop, up to and including the next test of
\* the loop condition; on leaving the loop, the return of InferTokens.
DecodeStep(f) ==
    /\ ipc = "loop"
    /\ UNCHANGED <<model, calls, image_data, max_tokens, encoder_hidden_states,
                   enc_in, enc_out, dec_in_hidden, encoder_runs, hidden_writes>>
    /\ LET maskWritten == f # "mask_write"
           embWritten  == f \notin {"mask_write", "emb_write"}
           ran         == f \in {"ok", "logits_read"}
           newMaskBuf  == IF maskWritten THEN attention_mask_ ELSE dec_in_mask
           newEmbBuf   == IF embWritten THEN embeddings_input_ ELSE dec_in_emb
           newOut      == IF ran
                          THEN DecoderRun(model, dec_in_hidden, newMaskBuf, newEmbBuf)
                          ELSE dec_out
           newLogits   == IF f = "ok" THEN newOut ELSE decoder_logits
           next_token  == FindMaxLogitToken(newLogits, token_count)
       IN  /\ dec_in_mask' = newMaskBuf
           /\ dec_in_emb' = newEmbBuf
           /\ dec_out' = newOut
           /\ decoder_logits' = newLogits
           /\ decoder_iterations' = IF ran THEN IterationsAfterRun(decoder_iterations)
                                    ELSE decoder_iterations
           /\ IF f # "ok"
              THEN /\ fail_kind' = f
                   /\ fail_step' = step
                   /\ UNCHANGED <<out_tokens, embeddings_input_, attention_mask_,
                                  token_count, step, end_step>>
                   /\ ret' = RetOnStepFailure(f, token_count)
                   /\ ipc' = "idle"
                   /\ ref' = RecordReturn(RetOnStepFailure(f, token_count), out_tokens, f,
                                          image_data, max_tokens)
              ELSE /\ UNCHANGED <<fail_kind, fail_step>>
                   /\ IF IsStopToken(next_token)
                      THEN /\ end_step' = IF next_token = END_TOKEN_ID THEN step
                                          ELSE end_step
                           /\ UNCHANGED <<out_tokens, embeddings_input_,
                                          attention_mask_, token_count, step>>
                           /\ ret' = token_count
                           /\ ipc' = "idle"
                           /\ ref' = RecordReturn(token_count, out_tokens, fail_kind,
                                                  image_data, max_tokens)
                      ELSE /\ end_step' = end_step
                           /\ out_tokens' = [out_tokens EXCEPT ![token_count] = next_token]
                           /\ embeddings_input_' =
                                  UpdateEmbedding(embeddings_input_, next_token, token_count)
                           /\ attention_mask_' = [attention_mask_ EXCEPT ![token_count] = 1]
                           /\ token_count' = token_count + 1
                           /\ IF StopAfterAppend(token_count + 1, max_tokens)
                                 \/ ~LoopCond(NextStep(step))
                              THEN /\ step' = step
                                   /\ ret' = token_count + 1
                                   /\ ipc' = "idle"
                                   /\ ref' = RecordReturn(token_count + 1, out_tokens',
                                                          fail_kind, image_data,
                                                          max_tokens)
                              ELSE /\ step' = NextStep(step)
                                   /\ ret' = ret
                                   /\ ipc' = "loop"
                                   /\ ref' = ref

(* ---------------------------------------------------------------------- *)
(* Engine lifecycle: OcrInference objects, their LiteRT objects and owned  *)
(* assets, and the process-wide GPU environment g_persist_env              *)
(* ---------------------------------------------------------------------- *)

\* Initialize calls (over all engines) that take ownership of assets.
MaxInits == 2

\* Two OcrInference objects side by side: they share nothing but
\* g_persist_env and g_env_mutex, so two are enough for every interleaving
\* of accesses to the shared environment.
Engines == {1, 2}
Handles == 1..(3 * MaxInits)

\* litert_ == nullptr, and a default-constructed LiteRtObjects.
NoLiteRt ==
    [present |-> FALSE, cpu_env |-> FALSE,
     compiled_encoder |-> "none", compiled_decoder |-> "none",
     encoder_input_buffers |-> FALSE, encoder_output_buffers |-> FALSE,
     decoder_input_buffers |-> FALSE, decoder_output_buffers |-> FALSE,
     using_gpu |-> FALSE, encoder_using_gpu |-> FALSE, decoder_using_gpu |-> FALSE]
NewLiteRt == [NoLiteRt EXCEPT !.present = TRUE]

\* A default-constructed OcrInference (asset handle 0 is nullptr).
NewEngine ==
    [initialized_ |-> FALSE, litert_ |-> NoLiteRt,
     encoder_asset_ |-> 0, decoder_asset_ |-> 0, embeddings_asset_ |-> 0,
     embeddings_input_size |-> 0, attention_mask_size |-> 0]

IsInitialized(eng) == eng.initialized_
IsEncoderUsingGpu(eng) == IF ~eng.litert_.present THEN FALSE ELSE eng.litert_.encoder_using_gpu
IsDecoderUsingGpu(eng) == IF ~eng.litert_.present THEN FALSE ELSE eng.litert_.decoder_using_gpu

\* Initialize, from taking ownership of the assets to make_unique<LiteRtObjects>.
TakeOwnership(eng, enc, dec, emb) ==
    [eng EXCEPT !.encoder_asset_ = enc, !.decoder_asset_ = dec,
                !.embeddings_asset_ = emb, !.litert_ = NewLiteRt]

\* What IsFullyAccelerated() can report for a compiled model: true, false,
\* or no value.
AccelReports == {"full", "partial", "unknown"}

\* Outcomes of a GPU compilation attempt (fields that the code never looks
\* at in a given outcome are fixed).
GpuOutcomes ==
    {g \in [opts_ok : BOOLEAN, enc_compiled : BOOLEAN, enc_accel : AccelReports,
            dec_compiled : BOOLEAN, dec_accel : AccelReports] :
        /\ ~g.opts_ok => (g.enc_compiled /\ g.dec_compiled)
        /\ (~g.opts_ok \/ ~g.enc_compiled) => g.enc_accel = "unknown"
        /\ (~g.opts_ok \/ ~g.dec_compiled) => g.dec_accel = "unknown"}

\* Outcomes of a CPU compilation attempt.
CpuOutcomes ==
    {c \in [env_ok : BOOLEAN, opts_ok : BOOLEAN, enc_compiled : BOOLEAN,
            dec_compiled : BOOLEAN] :
        /\ ~c.env_ok => c.opts_ok
        /\ (~c.env_ok \/ ~c.opts_ok) => (c.enc_compiled /\ c.dec_compiled)}

\* Variant: the decoder's acceleration report is not looked at.
GpuAccepted_encoderOnly(g) ==
    /\ g.opts_ok
    /\ g.enc_compiled /\ g.enc_accel # "partial"
    /\ g.dec_compiled

\* The conditions under which TryCompileWithGpu reaches its final block.
GpuAccepted(g) ==
    /\ g.opts_ok
    /\ g.enc_compiled /\ g.enc_accel # "partial"
    /\ g.dec_compiled /\ g.dec_accel # "partial"

\* Some model compiled by the GPU attempt reported partial acceleration.
GpuPartial(g) == g.opts_ok /\ (g.enc_accel = "partial" \/ g.dec_accel = "partial")

TryCompileWithGpu(lr, g) ==
    IF GpuAccepted(g)
    THEN [ok |-> TRUE,
          litert |-> [lr EXCEPT !.compiled_encoder = "gpu", !.compiled_decoder = "gpu",
                                !.encoder_using_gpu = TRUE, !.decoder_using_gpu = TRUE,
                                !.using_gpu = TRUE]]
    ELSE [ok |-> FALSE, litert |-> lr]

TryCompileWithCpu(lr, c) ==
    IF ~lr.cpu_env /\ ~c.env_ok THEN [ok |-> FALSE, litert |-> lr]
    ELSE LET lr1 == [lr EXCEPT !.cpu_env = TRUE]
         IN  IF c.opts_ok /\ c.enc_compiled /\ c.dec_compiled
             THEN [ok |-> TRUE,
                   litert |-> [lr1 EXCEPT !.compiled_encoder = "cpu",
                                          !.compiled_decoder = "cpu",
                                          !.encoder_using_gpu = FALSE,
                                          !.decoder_using_gpu = FALSE,
                                          !.using_gpu = FALSE]]
             ELSE [ok |-> FALSE, litert |-> lr1]

\* Variant: the CPU is tried only after a GPU attempt that failed.
NeedsCpu_afterGpuOnly(opencl_available, compiled) == opencl_available /\ ~compiled

\* if (!compiled) { compiled = TryCompileWithCpu(...); ... }
NeedsCpu(opencl_available, compiled) == ~compiled

\* The model byte buffers whose pages Initialize hands to ReleaseSystemPages
\* (madvise MADV_DONTNEED): both, inside if (compiled) after the GPU attempt.
PagesAdvised(opencl_available, gpu_ok) ==
    IF opencl_available /\ gpu_ok THEN {"encoder", "decoder"} ELSE {}

\* Initialize from the OpenCL probe to the assignment of using_gpu.  The
\* result also records which compilations were attempted and how they ended.
CompileStage(lr, opencl_available, g, c) ==
    LET gpu == IF opencl_available THEN TryCompileWithGpu(lr, g)
               ELSE [ok |-> FALSE, litert |-> lr]
        cpu_tried == NeedsCpu(opencl_available, gpu.ok)
        res == IF cpu_tried THEN TryCompileWithCpu(gpu.litert, c) ELSE gpu
        tried == [gpu_attempts |-> IF opencl_available THEN 1 ELSE 0,
                  gpu_ok |-> gpu.ok,
                  cpu_attempts |-> IF cpu_tried THEN 1 ELSE 0,
                  cpu_ok |-> cpu_tried /\ res.ok,
                  advised |-> PagesAdvised(opencl_available, gpu.ok)]
    IN  IF res.ok
        THEN [ok |-> TRUE,
              litert |-> [res.litert EXCEPT !.using_gpu =
                              res.litert.encoder_using_gpu /\ res.litert.decoder_using_gpu],
              tried |-> tried]
        ELSE [ok |-> FALSE, litert |-> res.litert, tried |-> tried]

\* GetOptimalThreadCount for std::thread::hardware_concurrency() == hw_threads.
GetOptimalThreadCount(hw_threads) ==
    IF hw_threads = 0 THEN 2 ELSE Min(hw_threads, 4)

\* CreateBuffers when its first n of six fallible steps succeed (the four
\* buffer-set creations, then the two size queries).
BufferSteps == 6

\* Variant: CreateBuffers reports success once the decoder input buffers
\* exist, without the decoder output buffers and the size queries.
CreateBuffers_lenient(lr, n) ==
    [ok |-> n >= 3,
     litert |-> [lr EXCEPT !.encoder_input_buffers = n >= 1,
                           !.encoder_output_buffers = n >= 2,
                           !.decoder_input_buffers = n >= 3,
                           !.decoder_output_buffers = n >= 4]]

CreateBuffers(lr, n) ==
    [ok |-> n >= BufferSteps,
     litert |-> [lr EXCEPT !.encoder_input_buffers = n >= 1,
                           !.encoder_output_buffers = n >= 2,
                           !.decoder_input_buffers = n >= 3,
                           !.decoder_output_buffers = n >= 4]]

\* The fallible steps of PerformWarmup, in order; "ok" when none fails.
WarmupOutcomes == {"enc_write", "enc_run", "enc_size", "enc_read", "hidden_write",
                   "mask_write", "emb_write", "dec_run", "ok"}
PerformWarmup(w) == w = "ok"

\* What may go wrong in one full forward pass on the new buffers: a step of
\* PerformWarmup, or the read of the decoder output buffer that InferTokens
\* performs after each decoder run.
ForwardPassOutcomes == WarmupOutcomes \cup {"logits_read"}

\* The outcome PerformWarmup meets: it returns after the decoder run, so a
\* decoder output that cannot be read goes unnoticed.
WarmupSees(f) == IF f = "logits_read" THEN "ok" ELSE f

\* Initialize after a successful warmup.
MarkInitialized(eng) ==
    [eng EXCEPT !.embeddings_input_size = MAX_SEQUENCE_LENGTH * HIDDEN_SIZE,
                !.attention_mask_size = MAX_SEQUENCE_LENGTH,
                !.initialized_ = TRUE]

\* The asset handles Close passes to AAsset_close.
OwnedAssets(eng) == {eng.encoder_asset_, eng.decoder_asset_, eng.embeddings_asset_} \ {0}

\* OcrInference::Close on the members.
Close(eng) ==
    [eng EXCEPT !.litert_ = NoLiteRt,
                !.encoder_asset_ = 0, !.decoder_asset_ = 0, !.embeddings_asset_ = 0,
                !.attention_mask_size = 0,
                !.initialized_ = FALSE]

\* Variant: Close also drops the process-wide environment.
EnvAfterClose_destroyed(env) == FALSE

\* Close leaves g_persist_env alone.
EnvAfterClose(env) == env

VARIABLES
    engine,          \* the members of each OcrInference object
    alive,           \* the object is constructed and not yet destroyed
    epc,             \* position of the running Initialize call ("idle": none)
    eret,            \* value the last Initialize call returned
    last_gpu,        \* history: outcome of the GPU attempt of the last Initialize
    last_warmup,     \* history: the forward pass outcome the last warmup accepted
    g_persist_env,   \* g_persist_env.has_value()
    g_env_mutex,     \* holder of g_env_mutex (0: free)
    env_creations,   \* history: successful creations of g_persist_env
    asset_closes,    \* history: AAsset_close calls per asset handle
    next_asset,      \* next fresh asset handle
    ready_closes     \* history: Close calls that found the engine initialized

engineVars == <<engine, alive, epc, eret, last_gpu, last_warmup, g_persist_env, g_env_mutex,
                env_creations, asset_closes, next_asset, ready_closes>>

InitEngine(constructed) ==
    /\ engine = [e \in Engines |-> NewEngine]
    /\ alive = [e \in Engines |-> constructed]
    /\ epc = [e \in Engines |-> "idle"]
    /\ eret = [e \in Engines |-> "none"]
    /\ last_gpu = [e \in Engines |-> "none"]
    /\ last_warmup = [e \in Engines |-> "none"]
    /\ g_persist_env = FALSE
    /\ g_env_mutex = 0
    /\ env_creations = 0
    /\ asset_closes = [h \in Handles |-> 0]
    /\ next_asset = 1
    /\ ready_closes = 0

\* AAsset_close on every handle in hs.
CloseAssets(closes, hs) == [h \in Handles |-> closes[h] + (IF h \in hs THEN 1 ELSE 0)]

\* Initialize returns r to its caller.
InitReturns(e, r) ==
    /\ epc' = [epc EXCEPT ![e] = "idle"]
    /\ eret' = [eret EXCEPT ![e] = r]

\* OcrInference() = default, for an object slot that holds no object.
Construct(e) ==
    /\ ~alive[e]
    /\ alive' = [alive EXCEPT ![e] = TRUE]
    /\ engine' = [engine EXCEPT ![e] = NewEngine]
    /\ eret' = [eret EXCEPT ![e] = "none"]
    /\ last_gpu' = [last_gpu EXCEPT ![e] = "none"]
    /\ last_warmup' = [last_warmup EXCEPT ![e] = "none"]
    /\ UNCHANGED <<epc, g_persist_env, g_env_mutex, env_creations, asset_closes,
                   next_asset, ready_closes>>

\* The effect of one Close call on engine e (shared by Close and ~OcrInference).
CloseEffect(e) ==
    /\ engine' = [engine EXCEPT ![e] = Close(engine[e])]
    /\ asset_closes' = CloseAssets(asset_closes, OwnedAssets(engine[e]))
    /\ g_persist_env' = EnvAfterClose(g_persist_env)
    /\ ready_closes' = IF engine[e].initialized_ THEN ready_closes + 1 ELSE ready_closes

\* Public Close().
CallClose(e) ==
    /\ alive[e] /\ epc[e] = "idle"
    /\ CloseEffect(e)
    /\ UNCHANGED <<alive, epc, eret, last_gpu, last_warmup, g_env_mutex, env_creations, next_asset>>

\* ~OcrInference(): Close(), then the object is gone.
Destructor(e) ==
    /\ alive[e] /\ epc[e] = "idle"
    /\ CloseEffect(e)
    /\ alive' = [alive EXCEPT ![e] = FALSE]
    /\ UNCHANGED <<epc, eret, last_gpu, last_warmup, g_env_mutex, env_creations, next_asset>>

\* Variant: the entry test of Initialize never fires.
AlreadyInitialized_never(eng) == FALSE

\* if (initialized_) { ... return false; }
AlreadyInitialized(eng) == eng.initialized_

\* Initialize on an engine that is already initialized: return false.
InitializeRejected(e) ==
    /\ alive[e] /\ epc[e] = "idle"
    /\ AlreadyInitialized(engine[e])
    /\ eret' = [eret EXCEPT ![e] = "false"]
    /\ UNCHANGED <<engine, alive, epc, last_gpu, last_warmup, g_persist_env, g_env_mutex,
                   env_creations, asset_closes, next_asset, ready_closes>>

\* Initialize with three freshly opened assets, up to the wait for g_env_mutex.
InitializeBegin(e) ==
    /\ alive[e] /\ epc[e] = "idle"
    /\ ~AlreadyInitialized(engine[e])
    /\ next_asset + 2 <= 3 * MaxInits
    /\ engine' = [engine EXCEPT ![e] =
                     TakeOwnership(engine[e], next_asset, next_asset + 1, next_asset + 2)]
    /\ next_asset' = next_asset + 3
    /\ epc' = [epc EXCEPT ![e] = "env_lock"]
    /\ eret' = [eret EXCEPT ![e] = "none"]
    /\ last_gpu' = [last_gpu EXCEPT ![e] = "none"]
    /\ last_warmup' = [last_warmup EXCEPT ![e] = "none"]
    /\ UNCHANGED <<alive, g_persist_env, g_env_mutex, env_creations, asset_closes,
                   ready_closes>>

\* std::lock_guard<std::mutex> lock(g_env_mutex); if (!g_persist_env.has_value()):
\* with an environment present the block is left at once (and the lock
\* released), otherwise the thread goes on to create it, holding the lock.
EnvLock(e) ==
    /\ epc[e] = "env_lock"
    /\ g_env_mutex = 0
    /\ IF g_persist_env
       THEN /\ g_env_mutex' = 0
            /\ epc' = [epc EXCEPT ![e] = "compile"]
       ELSE /\ g_env_mutex' = e
            /\ epc' = [epc EXCEPT ![e] = "env_create"]
    /\ UNCHANGED <<engine, alive, eret, last_gpu, last_warmup, g_persist_env, env_creations,
                   asset_closes, next_asset, ready_closes>>

\* Environment::Create and emplace, or the failure return; the lock_guard unlocks.
EnvCreate(e, created) ==
    /\ epc[e] = "env_create"
    /\ g_env_mutex' = 0
    /\ IF created
       THEN /\ g_persist_env' = TRUE
            /\ env_creations' = env_creations + 1
            /\ epc' = [epc EXCEPT ![e] = "compile"]
            /\ eret' = eret
       ELSE /\ UNCHANGED <<g_persist_env, env_creations>>
            /\ InitReturns(e, "false")
    /\ UNCHANGED <<engine, alive, last_gpu, last_warmup, asset_closes, next_asset, ready_closes>>

\* The OpenCL probe, TryCompileWithGpu, the CPU fallback and using_gpu.
Compile(e, opencl_available, g, c) ==
    /\ epc[e] = "compile"
    /\ LET res == CompileStage(engine[e].litert_, opencl_available, g, c)
       IN  /\ engine' = [engine EXCEPT ![e].litert_ = res.litert]
           /\ IF res.ok
              THEN /\ epc' = [epc EXCEPT ![e] = "buffers"]
                   /\ eret' = eret
              ELSE InitReturns(e, "false")
    /\ last_warmup' = last_warmup
    /\ last_gpu' = [last_gpu EXCEPT ![e] =
                       IF ~opencl_available THEN "skipped"
                       ELSE IF GpuPartial(g) THEN "partial"
                       ELSE IF TryCompileWithGpu(engine[e].litert_, g).ok THEN "ok"
                       ELSE "failed"]
    /\ UNCHANGED <<alive, g_persist_env, g_env_mutex, env_creations, asset_closes,
                   next_asset, ready_closes>>

\* if (!CreateBuffers()) return false;
Buffers(e, n) ==
    /\ epc[e] = "buffers"
    /\ LET res == CreateBuffers(engine[e].litert_, n)
       IN  /\ engine' = [engine EXCEPT ![e].litert_ = res.litert]
           /\ IF res.ok
              THEN /\ epc' = [epc EXCEPT ![e] = "warmup"]
                   /\ eret' = eret
              ELSE InitReturns(e, "false")
    /\ UNCHANGED <<alive, last_gpu, last_warmup, g_persist_env, g_env_mutex, env_creations,
                   asset_closes, next_asset, ready_closes>>

\* if (!PerformWarmup()) return false; ... initialized_ = true; return true;
Warmup(e, w) ==
    /\ epc[e] = "warmup"
    /\ IF PerformWarmup(WarmupSees(w))
       THEN /\ engine' = [engine EXCEPT ![e] = MarkInitialized(engine[e])]
            /\ InitReturns(e, "true")
       ELSE /\ engine' = engine
            /\ InitReturns(e, "false")
    /\ last_warmup' = [last_warmup EXCEPT ![e] =
                          IF PerformWarmup(WarmupSees(w)) THEN w ELSE "none"]
    /\ UNCHANGED <<alive, last_gpu, g_persist_env, g_env_mutex, env_creations,
                   asset_closes, next_asset, ready_closes>>

\* An exception thrown inside the try block after the environment section:
\* catch (...) { Close(); return false; }
InitException(e) ==
    /\ epc[e] \in {"compile", "buffers", "warmup"}
    /\ CloseEffect(e)
    /\ InitReturns(e, "false")
    /\ UNCHANGED <<alive, last_gpu, last_warmup, g_env_mutex, env_creations, next_asset>>

\* The steps of a running Initialize call.
InitializeStep(e) ==
    \/ EnvLock(e)
    \/ \E created \in BOOLEAN : EnvCreate(e, created)
    \/ \E o \in BOOLEAN, g \in GpuOutcomes, c \in CpuOutcomes : Compile(e, o, g, c)
    \/ \E n \in 0..BufferSteps : Buffers(e, n)
    \/ \E w \in ForwardPassOutcomes : Warmup(e, w)
    \/ InitException(e)

(* ---------------------------------------------------------------------- *)
(* The JNI boundary (ocr_native.cpp): the shared engine g_ocrInference,    *)
(* its init lock and the active-client count                               *)
(* ---------------------------------------------------------------------- *)

\* Threads calling into the JNI functions, and the cap on the client count.
NumThreads == 2
MaxClients == 3

Threads == 1..NumThreads

\* The object slot std::make_unique<mihon::OcrInference>() constructs into.
SharedSlot == 1

VARIABLES
    tpc,                 \* position of each thread in its JNI call ("idle": none)
    jret,                \* value the thread's last nativeOcrInit returned
    g_initMutex,         \* holder of g_initMutex (0: free)
    g_ocrInference,      \* 0 (nullptr) or the slot of the owned engine
    g_activeOcrClients,  \* the atomic client count
    g_textLoaded,        \* g_textPostprocessor and g_vocab are set
    g_buffersSized,      \* g_imageBuffer and g_tokenBuffer are sized
    real_inits,          \* history: OcrInference::Initialize calls made
    last_close           \* history: what the last nativeOcrClose did

jniVars == <<tpc, jret, g_initMutex, g_ocrInference, g_activeOcrClients,
             g_textLoaded, g_buffersSized, real_inits, last_close>>

VARIABLES
    g_inferenceMutex,    \* holder of g_inferenceMutex (0: free)
    g_imageBuffer,       \* content of g_imageBuffer (one number per image tensor)
    rret                 \* tokens in the string the thread's last nativeRecognizeText returned

recVars == <<g_inferenceMutex, g_imageBuffer, rret>>

VARIABLES
    cpc,            \* "start" (inputs drawn), the positions inside
                    \* TryCompileWithGpu, "done" (compile stage applied) or
                    \* "thrown" (left by an exception)
    c_opencl,       \* input: an OpenCL library can be loaded
    c_gpu,          \* input: outcome of the GPU compilation, if attempted
    c_cpu,          \* input: outcome of the CPU compilation, if attempted
    c_hw,           \* input: std::thread::hardware_concurrency()
    c_res,          \* result of the compile stage
    c_threads,      \* num_threads of the CPU compilation (0: not attempted)
    c_throw,        \* input: the decoder compilation on the main thread throws
    bg_task,        \* the std::async encoder compilation: "none", "running",
                    \* "finished" (result ready) or "joined" (future consumed)
    bg_launches     \* history: std::async calls of this compile stage

compVars == <<cpc, c_opencl, c_gpu, c_cpu, c_hw, c_res, c_threads, c_throw, bg_task,
              bg_launches>>

vars == <<inferVars, engineVars, jniVars, recVars, compVars>>

\* Largest hardware_concurrency value tried.
MaxHardwareThreads == 8

NoCompile ==
    [ok |-> FALSE, litert |-> NoLiteRt,
     tried |-> [gpu_attempts |-> 0, gpu_ok |-> FALSE, cpu_attempts |-> 0, cpu_ok |-> FALSE,
                advised |-> {}]]

\* TryCompileWithGpu is called and gets past its three early returns
\* (options creation and accelerator selection) to the std::async call.
GpuLaunches(opencl_available, g) == opencl_available /\ g.opts_ok

\* Variant: the future is dropped without waiting for the task.
FutureGet_detached(task) == [enabled |-> TRUE, task |-> task]

\* encoder_future.get() and ~future(): return once the task has finished.
FutureGet(task) == [enabled |-> task = "finished", task |-> "joined"]

InitCompileWith(opencls, gpus, cpus, hws, throws) ==
    /\ cpc = "start"
    /\ c_opencl \in opencls
    /\ c_gpu \in gpus
    /\ c_cpu \in cpus
    /\ c_hw \in hws
    /\ c_res = NoCompile
    /\ c_threads = 0
    /\ c_throw \in {FALSE} \cup {x \in throws : x => GpuLaunches(c_opencl, c_gpu)}
    /\ bg_task = "none"
    /\ bg_launches = 0

\* auto encoder_future = std::async(std::launch::async, ...): the encoder
\* compilation starts on its own thread.
GpuLaunch ==
    /\ cpc = "start"
    /\ GpuLaunches(c_opencl, c_gpu)
    /\ cpc' = "gpu_decoder"
    /\ bg_task' = "running"
    /\ bg_launches' = bg_launches + 1
    /\ UNCHANGED <<c_opencl, c_gpu, c_cpu, c_hw, c_res, c_threads, c_throw>>

\* The background thread: CompiledModel::Create for the encoder returns and
\* the result is stored in the shared state of the future.
BgEncoderCompile ==
    /\ bg_task = "running"
    /\ bg_task' = "finished"
    /\ UNCHANGED <<cpc, c_opencl, c_gpu, c_cpu, c_hw, c_res, c_threads, c_throw,
                   bg_launches>>

\* The main thread: CompiledModel::Create for the decoder returns, or throws.
GpuDecoderCompile ==
    /\ cpc = "gpu_decoder"
    /\ cpc' = IF c_throw THEN "gpu_unwind" ELSE "gpu_get"
    /\ UNCHANGED <<c_opencl, c_gpu, c_cpu, c_hw, c_res, c_threads, c_throw, bg_task,
                   bg_launches>>

\* auto compiled_encoder_result = encoder_future.get();
GpuGet ==
    /\ cpc = "gpu_get"
    /\ FutureGet(bg_task).enabled
    /\ bg_task' = FutureGet(bg_task).task
    /\ cpc' = "gpu_checks"
    /\ UNCHANGED <<c_opencl, c_gpu, c_cpu, c_hw, c_res, c_threads, c_throw, bg_launches>>

\* Stack unwinding out of TryCompileWithGpu: the destructor of a future
\* obtained from std::async blocks until the task has finished; the
\* exception then reaches the catch block of Initialize.
GpuUnwind ==
    /\ cpc = "gpu_unwind"
    /\ FutureGet(bg_task).enabled
    /\ bg_task' = FutureGet(bg_task).task
    /\ cpc' = "thrown"
    /\ UNCHANGED <<c_opencl, c_gpu, c_cpu, c_hw, c_res, c_threads, c_throw, bg_launches>>

\* The compile stage of Initialize on a fresh LiteRtObjects, with the
\* outcomes drawn: entered at the start when TryCompileWithGpu is not
\* called or returns before the launch, else resumed after the get().
CompileApply ==
    /\ \/ cpc = "start" /\ ~GpuLaunches(c_opencl, c_gpu)
       \/ cpc = "gpu_checks"
    /\ cpc' = "done"
    /\ c_res' = CompileStage(NewLiteRt, c_opencl, c_gpu, c_cpu)
    /\ c_threads' = IF c_res'.tried.cpu_attempts > 0 THEN GetOptimalThreadCount(c_hw)
                    ELSE 0
    /\ UNCHANGED <<c_opencl, c_gpu, c_cpu, c_hw, c_throw, bg_task, bg_launches>>

InitRec ==
    /\ g_inferenceMutex = 0
    /\ g_imageBuffer = 0
    /\ rret = [t \in Threads |-> <<>>]

\* No compile-stage experiment: one fixed set of inputs, never applied.
InitNoCompile ==
    InitCompileWith({FALSE}, {CHOOSE g \in GpuOutcomes : ~g.opts_ok},
                    {CHOOSE c \in CpuOutcomes : ~c.env_ok}, {0}, {FALSE})

InitJni ==
    /\ tpc = [t \in Threads |-> "idle"]
    /\ jret = [t \in Threads |-> "none"]
    /\ g_initMutex = 0
    /\ g_ocrInference = 0
    /\ g_activeOcrClients = 0
    /\ g_textLoaded = FALSE
    /\ g_buffersSized = FALSE
    /\ real_inits = 0
    /\ last_close = "none"

\* Variant: an existing engine is never reused.
EngineReady_never(ptr, engs) == FALSE

\* if (g_ocrInference && g_ocrInference->IsInitialized())
EngineReady(ptr, engs) == ptr # 0 /\ IsInitialized(engs[ptr])

\* Variant: the threshold is off by one, so the close of the second-to-last
\* client already tears the engine down.
DefersShutdown_late(previous_clients) == previous_clients > 2

\* if (previous_clients > 1): this close only decrements the count.
DefersShutdown(previous_clients) == previous_clients > 1

\* The JNI call of thread t returns.
JniReturns(t) ==
    /\ tpc' = [tpc EXCEPT ![t] = "idle"]
    /\ g_initMutex' = 0

\* nativeOcrInit: std::lock_guard<std::mutex> lock(g_initMutex);
NativeInitLock(t) ==
    /\ tpc[t] = "idle"
    /\ g_initMutex = 0
    /\ g_activeOcrClients < MaxClients
    /\ g_initMutex' = t
    /\ tpc' = [tpc EXCEPT ![t] = "init_locked"]
    /\ jret' = [jret EXCEPT ![t] = "none"]
    /\ UNCHANGED <<g_ocrInference, g_activeOcrClients, g_textLoaded, g_buffersSized,
                   real_inits, last_close, engineVars>>

\* nativeOcrInit finds the engine ready: count the client, return JNI_TRUE.
NativeInitReuse(t) ==
    /\ tpc[t] = "init_locked"
    /\ EngineReady(g_ocrInference, engine)
    /\ g_activeOcrClients' = g_activeOcrClients + 1
    /\ jret' = [jret EXCEPT ![t] = "true"]
    /\ JniReturns(t)
    /\ UNCHANGED <<g_ocrInference, g_textLoaded, g_buffersSized, real_inits, last_close, engineVars>>

\* nativeOcrInit gives up before an engine is created: an exception while
\* loading the postprocessor/vocabulary, no asset manager, or an asset that
\* does not open.
NativeInitFailEarly(t, why) ==
    /\ tpc[t] = "init_locked"
    /\ ~EngineReady(g_ocrInference, engine)
    /\ g_textLoaded' = IF why = "exception" THEN g_textLoaded ELSE TRUE
    /\ jret' = [jret EXCEPT ![t] = "false"]
    /\ JniReturns(t)
    /\ UNCHANGED <<g_ocrInference, g_activeOcrClients, g_buffersSized, real_inits,
                   last_close, engineVars>>

\* nativeOcrInit opens the three assets, creates the engine and calls
\* Initialize on it (an object still held by g_ocrInference is destroyed by
\* the assignment).
NativeInitCreate(t) ==
    /\ tpc[t] = "init_locked"
    /\ ~EngineReady(g_ocrInference, engine)
    /\ next_asset + 2 <= 3 * MaxInits
    /\ g_textLoaded' = TRUE
    /\ g_ocrInference' = SharedSlot
    /\ alive' = [alive EXCEPT ![SharedSlot] = TRUE]
    /\ asset_closes' = CloseAssets(asset_closes,
                                   IF alive[SharedSlot] THEN OwnedAssets(engine[SharedSlot])
                                   ELSE {})
    /\ engine' = [engine EXCEPT ![SharedSlot] =
                     TakeOwnership(NewEngine, next_asset, next_asset + 1, next_asset + 2)]
    /\ next_asset' = next_asset + 3
    /\ epc' = [epc EXCEPT ![SharedSlot] = "env_lock"]
    /\ eret' = [eret EXCEPT ![SharedSlot] = "none"]
    /\ last_gpu' = [last_gpu EXCEPT ![SharedSlot] = "none"]
    /\ last_warmup' = [last_warmup EXCEPT ![SharedSlot] = "none"]
    /\ real_inits' = real_inits + 1
    /\ tpc' = [tpc EXCEPT ![t] = "init_engine"]
    /\ UNCHANGED <<jret, g_initMutex, g_activeOcrClients, g_buffersSized, last_close,
                   g_persist_env, g_env_mutex, env_creations, ready_closes>>

\* Variant: the caller is counted whether or not Initialize succeeded.
ClientsAfterInit_counted(success) == 1

\* g_activeOcrClients.store(0) after a failed Initialize, store(1) after a
\* successful one.
ClientsAfterInit(success) == IF success THEN 1 ELSE 0

\* nativeOcrInit after Initialize has returned: on failure reset the engine
\* and store 0, on success store 1 and size the buffers.
NativeInitFinish(t) ==
    /\ tpc[t] = "init_engine"
    /\ epc[SharedSlot] = "idle"
    /\ IF eret[SharedSlot] = "true"
       THEN /\ g_activeOcrClients' = ClientsAfterInit(TRUE)
            /\ g_buffersSized' = TRUE
            /\ jret' = [jret EXCEPT ![t] = "true"]
            /\ UNCHANGED <<g_ocrInference, engineVars>>
       ELSE /\ CloseEffect(SharedSlot)
            /\ alive' = [alive EXCEPT ![SharedSlot] = FALSE]
            /\ g_ocrInference' = 0
            /\ g_activeOcrClients' = ClientsAfterInit(FALSE)
            /\ jret' = [jret EXCEPT ![t] = "false"]
            /\ UNCHANGED <<g_buffersSized, epc, eret, last_gpu, last_warmup, g_env_mutex,
                           env_creations, next_asset>>
    /\ JniReturns(t)
    /\ UNCHANGED <<g_textLoaded, real_inits, last_close>>

\* nativeOcrClose: std::lock_guard<std::mutex> lock(g_initMutex);
NativeCloseLock(t) ==
    /\ tpc[t] = "idle"
    /\ g_initMutex = 0
    /\ g_initMutex' = t
    /\ tpc' = [tpc EXCEPT ![t] = "close_locked"]
    /\ UNCHANGED <<jret, g_ocrInference, g_activeOcrClients, g_textLoaded,
                   g_buffersSized, real_inits, last_close, engineVars>>

\* nativeOcrClose under the lock: decrement only, or tear everything down
\* (Close(), then reset() runs the destructor and with it Close() again).
NativeCloseBody(t) ==
    /\ tpc[t] = "close_locked"
    /\ last_close' = IF DefersShutdown(g_activeOcrClients) THEN "deferred" ELSE "teardown"
    /\ IF DefersShutdown(g_activeOcrClients)
       THEN /\ g_activeOcrClients' = g_activeOcrClients - 1
            /\ UNCHANGED <<g_ocrInference, g_textLoaded, g_buffersSized, engineVars>>
       ELSE /\ g_activeOcrClients' = 0
            /\ g_textLoaded' = FALSE
            /\ g_buffersSized' = FALSE
            /\ g_ocrInference' = 0
            /\ IF g_ocrInference # 0
               THEN /\ engine' = [engine EXCEPT ![g_ocrInference] =
                                     Close(Close(engine[g_ocrInference]))]
                    /\ asset_closes' =
                           CloseAssets(CloseAssets(asset_closes,
                                                   OwnedAssets(engine[g_ocrInference])),
                                       OwnedAssets(Close(engine[g_ocrInference])))
                    /\ g_persist_env' = EnvAfterClose(EnvAfterClose(g_persist_env))
                    /\ ready_closes' = IF engine[g_ocrInference].initialized_
                                       THEN ready_closes + 1 ELSE ready_closes
                    /\ alive' = [alive EXCEPT ![g_ocrInference] = FALSE]
                    /\ UNCHANGED <<epc, eret, last_gpu, last_warmup, g_env_mutex, env_creations,
                                   next_asset>>
               ELSE UNCHANGED engineVars
    /\ JniReturns(t)
    /\ UNCHANGED <<jret, real_inits>>

\* Initialize running inside nativeOcrInit.
NativeInitEngineStep ==
    /\ InitializeStep(SharedSlot)
    /\ UNCHANGED jniVars

(* ---------------------------------------------------------------------- *)
(* Specifications                                                          *)
(* ---------------------------------------------------------------------- *)

InitInfer ==
    /\ InitInferWith(Models) /\ InitEngine(TRUE) /\ InitJni /\ InitRec
    /\ InitNoCompile

InferTokensCall ==
    /\ calls < MaxCalls
    /\ \E img \in Images, mt \in MaxTokensArgs, f \in StageOutcomes : InferBegin(img, mt, f)

InferTokensStep == \E f \in StepOutcomes : DecodeStep(f)

NextInfer ==
    /\ InferTokensCall \/ InferTokensStep
    /\ UNCHANGED <<engineVars, jniVars, recVars, compVars>>

SpecInfer == InitInfer /\ [][NextInfer]_vars

\* The first InferTokens call of an engine, followed to its return.
FirstCall ==
    /\ calls = 0
    /\ \E img \in Images, mt \in MaxTokensArgs, f \in StageOutcomes : InferBegin(img, mt, f)

NextFirstCall ==
    /\ FirstCall \/ InferTokensStep
    /\ UNCHANGED <<engineVars, jniVars, recVars, compVars>>

\* The thread inside InferTokens keeps running: a decode step that can be
\* taken is eventually taken.
SpecInferFair ==
    /\ InitInfer
    /\ [][NextFirstCall]_vars
    /\ WF_vars(InferTokensStep /\ UNCHANGED <<engineVars, jniVars, recVars, compVars>>)

\* Repeated calls on one engine, to compare the results of equal calls.
RepeatCall ==
    /\ calls < MaxRepeatCalls
    /\ \E img \in Images, mt \in RepeatTokensArgs, f \in RepeatStageOutcomes :
           InferBegin(img, mt, f)

RepeatStep == \E f \in RepeatStepOutcomes : DecodeStep(f)

NextRepeat ==
    /\ RepeatCall \/ RepeatStep
    /\ UNCHANGED <<engineVars, jniVars, recVars, compVars>>

SpecRepeat == InitInfer /\ [][NextRepeat]_vars

\* Engine objects used directly through their public interface.
EngineCall(e) ==
    \/ Construct(e)
    \/ Destructor(e)
    \/ CallClose(e)
    \/ InitializeRejected(e)
    \/ InitializeBegin(e)

NextEngine ==
    /\ \E e \in Engines : EngineCall(e) \/ InitializeStep(e)
    /\ UNCHANGED <<inferVars, jniVars, recVars, compVars>>

InitEngineSpec ==
    /\ InitInferWith({"never_end"}) /\ InitEngine(TRUE) /\ InitJni /\ InitRec
    /\ InitNoCompile

SpecEngine == InitEngineSpec /\ [][NextEngine]_vars

\* Threads calling nativeOcrInit and nativeOcrClose.
NextJni ==
    /\ \/ \E t \in Threads :
              \/ NativeInitLock(t)
              \/ NativeInitReuse(t)
              \/ \E why \in {"exception", "no_manager", "no_assets"} :
                     NativeInitFailEarly(t, why)
              \/ NativeInitCreate(t)
              \/ NativeInitFinish(t)
              \/ NativeCloseLock(t)
              \/ NativeCloseBody(t)
       \/ NativeInitEngineStep
    /\ UNCHANGED <<inferVars, recVars, compVars>>

InitJniSpec ==
    /\ InitInferWith({"never_end"}) /\ InitEngine(FALSE) /\ InitJni /\ InitRec
    /\ InitNoCompile

SpecJni == InitJniSpec /\ [][NextJni]_vars

(* ---------------------------------------------------------------------- *)
(* One engine object through its whole life: Initialize, InferTokens and   *)
(* Close called one after the other on the object in slot SharedSlot       *)
(* ---------------------------------------------------------------------- *)

\* InferTokens calls per run under SpecLife, and the arguments and injected
\* failures tried there (one of each kind of outcome of a call).
MaxLifeCalls == 2
LifeImages == {1}
LifeTokensArgs == {3}
LifeStageOutcomes == {"ok", "enc_run", "exception"}
LifeStepOutcomes == {"ok", "dec_run", "exception"}

\* Variant: the entry test looks at litert_ instead of initialized_.
NotInitialized_litert(eng) == ~eng.litert_.present

\* if (!initialized_) at the entry of InferTokens.
NotInitialized(eng) == ~eng.initialized_

\* Variant: the catch block of InferTokens closes the engine, as the catch
\* block of Initialize does.
EngineAfterInfer_closes(eng, kind) == IF kind = "exception" THEN Close(eng) ELSE eng

\* The members of the engine other than the working arrays after a step of
\* InferTokens that ends in kind: no path of InferTokens assigns them.
EngineAfterInfer(eng, kind) == eng

\* InferTokens on an engine that is not initialized: return 0.
InferNotInitialized(img, mt) ==
    /\ ipc = "idle"
    /\ calls' = calls + 1
    /\ image_data' = img
    /\ max_tokens' = mt
    /\ ret' = 0
    /\ fail_kind' = "none"
    /\ fail_step' = -1
    /\ end_step' = -1
    /\ encoder_runs' = 0
    /\ hidden_writes' = 0
    /\ UNCHANGED <<model, ipc, out_tokens, token_count, step, embeddings_input_,
                   attention_mask_, encoder_hidden_states, decoder_logits, enc_in,
                   enc_out, dec_in_hidden, dec_in_mask, dec_in_emb, dec_out,
                   decoder_iterations, ref>>

\* The working arrays and tensor buffers a successful Initialize leaves
\* behind: fresh tensor buffers written by PerformWarmup, value-initialized
\* encoder_hidden_states and decoder_logits, attention_mask_ resized from
\* empty, and embeddings_input_ resized (a no-op when it already has its size).
WarmedUp(eng) ==
    /\ enc_in' = 0
    /\ enc_out' = EncoderRun(0)
    /\ dec_in_hidden' = EncoderRun(0)
    /\ dec_in_mask' = [i \in Positions |-> IF i = 0 THEN 1 ELSE 0]
    /\ dec_in_emb' = ZeroEmb
    /\ dec_out' = DecoderRun(model, EncoderRun(0),
                             [i \in Positions |-> IF i = 0 THEN 1 ELSE 0], ZeroEmb)
    /\ encoder_hidden_states' = 0
    /\ decoder_logits' = ZeroLogits
    /\ attention_mask_' = ZeroMask
    /\ embeddings_input_' = IF eng.embeddings_input_size = 0 THEN ZeroEmb
                            ELSE embeddings_input_
    /\ UNCHANGED <<model, ipc, calls, image_data, max_tokens, out_tokens, token_count,
                   step, ret, fail_kind, fail_step, end_step, decoder_iterations, ref,
                   encoder_runs, hidden_writes>>

\* The engine members after the InferTokens step taken in this transition.
LifeEngineAfter(f) ==
    /\ engine' = [engine EXCEPT ![SharedSlot] =
                     EngineAfterInfer(engine[SharedSlot], f)]
    /\ asset_closes' = CloseAssets(asset_closes,
                                   OwnedAssets(engine[SharedSlot])
                                       \ OwnedAssets(EngineAfterInfer(engine[SharedSlot], f)))
    /\ UNCHANGED <<alive, epc, eret, last_gpu, last_warmup, g_persist_env, g_env_mutex,
                   env_creations, next_asset, ready_closes>>

\* A call of InferTokens on the engine, up to the first loop test.
LifeInferCall ==
    /\ alive[SharedSlot] /\ epc[SharedSlot] = "idle"
    /\ calls < MaxLifeCalls
    /\ \E img \in LifeImages, mt \in LifeTokensArgs, f \in LifeStageOutcomes :
           IF NotInitialized(engine[SharedSlot])
           THEN InferNotInitialized(img, mt) /\ UNCHANGED engineVars
           ELSE InferBegin(img, mt, f) /\ LifeEngineAfter(f)

\* One iteration of the decode loop of the running call.
LifeInferStep == \E f \in LifeStepOutcomes : DecodeStep(f) /\ LifeEngineAfter(f)

\* Close, a rejected Initialize, or a step of Initialize before the warmup.
LifeEngineStep ==
    /\ ipc = "idle"
    /\ \/ CallClose(SharedSlot)
       \/ InitializeRejected(SharedSlot)
       \/ InitializeBegin(SharedSlot)
       \/ EnvLock(SharedSlot)
       \/ \E created \in BOOLEAN : EnvCreate(SharedSlot, created)
       \/ \E o \in BOOLEAN, g \in GpuOutcomes, c \in CpuOutcomes :
              Compile(SharedSlot, o, g, c)
       \/ \E n \in 0..BufferSteps : Buffers(SharedSlot, n)
       \/ InitException(SharedSlot)
    /\ UNCHANGED inferVars

\* The last stage of Initialize: PerformWarmup, the resizes, initialized_.
LifeWarmup ==
    \E w \in WarmupOutcomes :
        /\ Warmup(SharedSlot, w)
        /\ IF PerformWarmup(w) THEN WarmedUp(engine[SharedSlot])
           ELSE UNCHANGED inferVars

NextLife ==
    /\ LifeInferCall \/ LifeInferStep \/ LifeEngineStep \/ LifeWarmup
    /\ UNCHANGED <<jniVars, recVars, compVars>>

InitLife ==
    /\ InitInferWith({"never_end"}) /\ InitEngine(TRUE) /\ InitJni /\ InitRec
    /\ InitNoCompile

SpecLife == InitLife /\ [][NextLife]_vars

(* ---------------------------------------------------------------------- *)
(* nativeRecognizeText (ocr_native.cpp): threads asking the shared engine  *)
(* for text, one InferTokens call each                                     *)
(* ---------------------------------------------------------------------- *)

SPECIAL_TOKEN_THRESHOLD == 5

\* The engine record after a successful CPU-only Initialize with asset
\* handles 1, 2, 3 (what nativeOcrInit leaves in g_ocrInference).
ReadyEngine ==
    LET cpu_ok   == [env_ok |-> TRUE, opts_ok |-> TRUE, enc_compiled |-> TRUE,
                     dec_compiled |-> TRUE]
        gpu_any  == CHOOSE g \in GpuOutcomes : g.opts_ok
        owned    == TakeOwnership(NewEngine, 1, 2, 3)
        compiled == CompileStage(owned.litert_, FALSE, gpu_any, cpu_ok).litert
        buffered == CreateBuffers(compiled, BufferSteps).litert
    IN  MarkInitialized([owned EXCEPT !.litert_ = buffered])

\* The process with the shared engine initialized by one nativeOcrInit call
\* of thread 1 (ready), or with no engine at all.
InitProcess(ready) ==
    /\ engine = [e \in Engines |-> IF ready /\ e = SharedSlot THEN ReadyEngine
                                    ELSE NewEngine]
    /\ alive = [e \in Engines |-> ready /\ e = SharedSlot]
    /\ epc = [e \in Engines |-> "idle"]
    /\ eret = [e \in Engines |-> IF ready /\ e = SharedSlot THEN "true" ELSE "none"]
    /\ last_warmup = [e \in Engines |-> IF ready /\ e = SharedSlot THEN "ok"
                                         ELSE "none"]
    /\ last_gpu = [e \in Engines |-> IF ready /\ e = SharedSlot THEN "skipped"
                                      ELSE "none"]
    /\ g_persist_env = ready
    /\ g_env_mutex = 0
    /\ env_creations = IF ready THEN 1 ELSE 0
    /\ asset_closes = [h \in Handles |-> 0]
    /\ next_asset = IF ready THEN 4 ELSE 1
    /\ ready_closes = 0
    /\ tpc = [t \in Threads |-> "idle"]
    /\ jret = [t \in Threads |-> IF ready /\ t = 1 THEN "true" ELSE "none"]
    /\ g_initMutex = 0
    /\ g_ocrInference = IF ready THEN SharedSlot ELSE 0
    /\ g_activeOcrClients = IF ready THEN 1 ELSE 0
    /\ g_textLoaded = ready
    /\ g_buffersSized = ready
    /\ real_inits = IF ready THEN 1 ELSE 0
    /\ last_close = "none"

\* Variant: nativeRecognizeText does not wait for g_inferenceMutex.
InferenceLockFree_always(holder) == TRUE

\* std::lock_guard<std::mutex> lock(g_inferenceMutex) can be entered.
InferenceLockFree(holder) == holder = 0

\* PreprocessBitmap: the bitmap's pixels normalised into the image buffer,
\* or the buffer left as it is when the bitmap cannot be read.
PreprocessBitmap(buffer, bitmap_ok, img) == IF bitmap_ok THEN img ELSE buffer

\* The tokens whose vocabulary strings make up the result: the first n
\* entries of the token buffer, without the special tokens and without ids
\* beyond the vocabulary.
RecognizedTokens(toks, n) ==
    SelectSeq([i \in 1..n |-> toks[i - 1]],
              LAMBDA tokenId : tokenId >= SPECIAL_TOKEN_THRESHOLD /\ tokenId < VOCAB_SIZE)

\* nativeRecognizeText of thread t returns.
RecognizeReturns(t, tokens) ==
    /\ tpc' = [tpc EXCEPT ![t] = "idle"]
    /\ g_inferenceMutex' = 0
    /\ rret' = [rret EXCEPT ![t] = tokens]

\* nativeRecognizeText: std::lock_guard<std::mutex> lock(g_inferenceMutex);
NativeRecognizeLock(t) ==
    /\ tpc[t] = "idle"
    /\ calls < MaxCalls
    /\ InferenceLockFree(g_inferenceMutex)
    /\ g_inferenceMutex' = t
    /\ tpc' = [tpc EXCEPT ![t] = "rec_locked"]
    /\ UNCHANGED <<jret, g_initMutex, g_ocrInference, g_activeOcrClients, g_textLoaded,
                   g_buffersSized, real_inits, last_close, g_imageBuffer, rret,
                   engineVars, inferVars>>

\* No engine, or an engine that is not initialized: return "".
NativeRecognizeRejected(t) ==
    /\ tpc[t] = "rec_locked"
    /\ ~EngineReady(g_ocrInference, engine)
    /\ RecognizeReturns(t, <<>>)
    /\ UNCHANGED <<jret, g_initMutex, g_ocrInference, g_activeOcrClients, g_textLoaded,
                   g_buffersSized, real_inits, last_close, g_imageBuffer,
                   engineVars, inferVars>>

\* PreprocessBitmap into g_imageBuffer, then InferTokens(image_data, tokens,
\* MAX_SEQUENCE_LENGTH) up to its first loop test.
NativeRecognizeInfer(t, bitmap_ok, img, f) ==
    /\ tpc[t] = "rec_locked"
    /\ EngineReady(g_ocrInference, engine)
    /\ g_imageBuffer' = PreprocessBitmap(g_imageBuffer, bitmap_ok, img)
    /\ InferBegin(g_imageBuffer', MAX_SEQUENCE_LENGTH, f)
    /\ tpc' = [tpc EXCEPT ![t] = "rec_infer"]
    /\ UNCHANGED <<jret, g_initMutex, g_ocrInference, g_activeOcrClients, g_textLoaded,
                   g_buffersSized, real_inits, last_close, g_inferenceMutex, rret,
                   engineVars>>

\* One iteration of the decode loop of the InferTokens call of thread t.
NativeRecognizeStep(t, f) ==
    /\ tpc[t] = "rec_infer"
    /\ DecodeStep(f)
    /\ UNCHANGED <<jniVars, recVars, engineVars>>

\* InferTokens has returned: "" for token_count <= 0, else the vocabulary
\* strings of the non-special tokens.
NativeRecognizeFinish(t) ==
    /\ tpc[t] = "rec_infer"
    /\ ipc = "idle"
    /\ RecognizeReturns(t, IF ret <= 0 THEN <<>> ELSE RecognizedTokens(out_tokens, ret))
    /\ UNCHANGED <<jret, g_initMutex, g_ocrInference, g_activeOcrClients, g_textLoaded,
                   g_buffersSized, real_inits, last_close, g_imageBuffer,
                   engineVars, inferVars>>

NextRecognize ==
    /\ \E t \in Threads :
           \/ NativeRecognizeLock(t)
           \/ NativeRecognizeRejected(t)
           \/ \E bitmap_ok \in BOOLEAN, img \in Images, f \in RepeatStageOutcomes :
                  NativeRecognizeInfer(t, bitmap_ok, img, f)
           \/ \E f \in RepeatStepOutcomes : NativeRecognizeStep(t, f)
           \/ NativeRecognizeFinish(t)
    /\ UNCHANGED compVars

InitRecognize ==
    /\ InitInferWith({"never_end", "end_by_count"})
    /\ \E ready \in BOOLEAN : InitProcess(ready)
    /\ InitRec
    /\ InitNoCompile

SpecRecognize == InitRecognize /\ [][NextRecognize]_vars

(* ---------------------------------------------------------------------- *)
(* nativeRecognizeText against nativeOcrClose: the first takes             *)
(* g_inferenceMutex only, the second g_initMutex only                      *)
(* ---------------------------------------------------------------------- *)

\* What a nativeRecognizeText call can do once nativeOcrClose has destroyed
\* the engine and cleared the buffers under it (use of freed memory): take
\* the process down, or return nothing, or return text made of stale data.
DanglingOutcomes == {"crash", "empty", "stale"}

\* nativeRecognizeText of thread t goes on after the teardown.
NativeRecognizeDangling(t, outcome) ==
    /\ tpc[t] = "rec_infer"
    /\ g_ocrInference = 0
    /\ ipc' = "idle"
    /\ IF outcome = "crash"
       THEN /\ tpc' = [tpc EXCEPT ![t] = "crashed"]
            /\ UNCHANGED <<g_inferenceMutex, rret>>
       ELSE RecognizeReturns(t, IF outcome = "empty" THEN <<>>
                                ELSE RecognizedTokens(out_tokens, token_count))
    /\ UNCHANGED <<jret, g_initMutex, g_ocrInference, g_activeOcrClients, g_textLoaded,
                   g_buffersSized, real_inits, last_close, g_imageBuffer, engineVars,
                   model, calls, image_data, max_tokens, out_tokens, token_count, step,
                   ret, embeddings_input_, attention_mask_, encoder_hidden_states,
                   decoder_logits, enc_in, enc_out, dec_in_hidden, dec_in_mask,
                   dec_in_emb, dec_out, fail_kind, fail_step, end_step,
                   decoder_iterations, ref, encoder_runs, hidden_writes>>

\* nativeOcrClose of thread t, with inferVars and the recognize state left
\* alone.
NativeCloseStep(t) ==
    /\ NativeCloseLock(t) \/ NativeCloseBody(t)
    /\ UNCHANGED <<inferVars, recVars>>

NextTeardown ==
    /\ \E t \in Threads :
           \/ NativeRecognizeLock(t)
           \/ NativeRecognizeRejected(t)
           \/ \E img \in LifeImages, f \in LifeStageOutcomes :
                  NativeRecognizeInfer(t, TRUE, img, f)
           \/ \E f \in LifeStepOutcomes : g_ocrInference # 0 /\ NativeRecognizeStep(t, f)
           \/ g_ocrInference # 0 /\ NativeRecognizeFinish(t)
           \/ \E outcome \in DanglingOutcomes : NativeRecognizeDangling(t, outcome)
           \/ NativeCloseStep(t)
    /\ UNCHANGED compVars

\* The shared engine is initialized and has one client.
InitTeardown ==
    /\ InitInferWith({"never_end", "end_by_count"})
    /\ InitProcess(TRUE)
    /\ InitRec
    /\ InitNoCompile

SpecTeardown == InitTeardown /\ [][NextTeardown]_vars

\* The compile stage as a function of its outcomes.
NextCompile ==
    /\ \/ GpuLaunch
       \/ BgEncoderCompile
       \/ GpuDecoderCompile
       \/ GpuGet
       \/ GpuUnwind
       \/ CompileApply
    /\ UNCHANGED <<inferVars, engineVars, jniVars, recVars>>

InitCompile ==
    /\ InitInferWith({"never_end"}) /\ InitEngine(TRUE) /\ InitJni /\ InitRec
    /\ InitCompileWith(BOOLEAN, GpuOutcomes, CpuOutcomes, 0..MaxHardwareThreads, BOOLEAN)

SpecCompile == InitCompile /\ [][NextCompile]_vars

\* A call of InferTokens has returned.
Returned == ipc = "idle" /\ calls > 0

(* ---------------------------------------------------------------------- *)
(* Claims about InferTokens                                                *)
(* ---------------------------------------------------------------------- *)

\* C1 (as claimed): for every max_tokens, decoder and injected failure, the
\* count InferTokens returns lies in [0, min(max_tokens, MAX_SEQUENCE_LENGTH)].
C1_CountInRange ==
    Returned => (ret >= 0 /\ ret <= Min(max_tokens, MAX_SEQUENCE_LENGTH))

WriteFailedAtStep5 ==
    Returned /\ fail_step = 5 /\ fail_kind \in {"mask_write", "emb_write"}

\* C3 (as claimed): a decoder-input write failure at decode step 5 makes
\* InferTokens return a sequence of length 5.
C3_Orig == WriteFailedAtStep5 => ret = 5

\* C3 (amended): a decoder-input write failure at decode step 5 makes
\* InferTokens return a sequence of length 6: START and the five non-END
\* tokens appended by steps 0 to 4.
C3_KeepsTokens ==
    WriteFailedAtStep5 =>
        /\ ret = 6
        /\ out_tokens[0] = START_TOKEN_ID
        /\ \A i \in 1..5 : out_tokens[i] # END_TOKEN_ID

C3_Witness == WriteFailedAtStep5 /\ fail_kind = "emb_write" /\ ret = 6

\* C4: the returned sequence never contains END, and a call whose first
\* decode step selects END returns exactly <<START>>.
C4_EndNotAppended ==
    Returned =>
        /\ \A i \in 1..ret : Result[i] # END_TOKEN_ID
        /\ end_step = 0 => (ret = 1 /\ Result = <<START_TOKEN_ID>>)
        /\ end_step >= 0 => ret = end_step + 1

C4_Witness == Returned /\ end_step = 0 /\ ret = 1 /\ calls = 2

\* C5: a call without injected failure returns the same token sequence as
\* the first such call with the same image and max_tokens, whatever calls
\* (other arguments, failing part-way) came in between.
C5_Deterministic ==
    (Returned /\ fail_kind = "none" /\ ref.set
        /\ ref.image = image_data /\ ref.max_tokens = max_tokens)
        => Result = ref.tokens

C5_Witness ==
    /\ Returned /\ fail_kind = "none" /\ ref.set /\ ref.between
    /\ ref.image = image_data /\ ref.max_tokens = max_tokens
    /\ calls = MaxRepeatCalls /\ Len(ref.tokens) >= 3

\* The current or last call got as far as creating its decode state
\* (token_count exists): it is in the loop, or it returned from the
\* hidden-state write or from the loop.
DecodeStateDefined ==
    \/ ipc = "loop"
    \/ Returned /\ (fail_kind \in {"none", "hidden_write"} \/ fail_step >= 0)

\* C19: at every iteration boundary of the decode loop and at the return of
\* InferTokens, token_count is in [1, MAX_SEQUENCE_LENGTH], attention_mask_
\* is 1 exactly at the indices below token_count, and embeddings_input_
\* holds the embedding rows of out_tokens[0 .. token_count-1] in its first
\* token_count rows and zeros in all others.
C19_DecodeState ==
    DecodeStateDefined =>
        /\ token_count >= 1 /\ token_count <= MAX_SEQUENCE_LENGTH
        /\ \A i \in Positions :
               attention_mask_[i] = (IF i < token_count THEN 1 ELSE 0)
        /\ \A k \in EmbIndex :
               embeddings_input_[k] =
                   (IF k \div HIDDEN_SIZE < token_count
                    THEN EmbeddingsData(out_tokens[k \div HIDDEN_SIZE] * HIDDEN_SIZE
                                        + (k % HIDDEN_SIZE))
                    ELSE 0)

\* A second call is in its loop with fewer tokens than the first, full-length
\* call left behind.
C19_Witness ==
    /\ calls = 2 /\ ipc = "loop" /\ token_count = 2
    /\ out_tokens[MAX_SEQUENCE_LENGTH - 1] # 0

\* The smallest vocabulary index whose logit is maximal in the given row.
SmallestArgmax(logits, row) ==
    CHOOSE v \in Vocab :
        /\ \A u \in Vocab : logits[row * VOCAB_SIZE + u] <= logits[row * VOCAB_SIZE + v]
        /\ \A u \in Vocab : u < v => logits[row * VOCAB_SIZE + u] < logits[row * VOCAB_SIZE + v]

\* The last decode step of the current or last call read its logits and
\* selected a token (no failure, at least one decoder run).
TokenSelected ==
    /\ ipc = "loop" \/ Returned
    /\ fail_kind = "none" /\ decoder_iterations > 0

\* C20: the token a decode step selects is the smallest index with the
\* maximal logit in the logits row of the most recently appended token
\* (row token_count - 1 at the time of the call), and lies in
\* [0, VOCAB_SIZE - 1]: if it was END the call has stopped without appending
\* it, otherwise it is the token just appended.
C20_ArgmaxAtLastToken ==
    TokenSelected =>
        IF end_step >= 0
        THEN /\ SmallestArgmax(decoder_logits, token_count - 1) = END_TOKEN_ID
             /\ ipc = "idle"
        ELSE /\ out_tokens[token_count - 1] =
                    SmallestArgmax(decoder_logits, token_count - 2)
             /\ out_tokens[token_count - 1] \in Vocab

\* A step has appended a token that tied with a later vocabulary entry for
\* the maximal logit, at a row other than the first.
C20_Witness ==
    /\ TokenSelected /\ end_step = -1 /\ token_count >= 3
    /\ out_tokens[token_count - 1] < VOCAB_SIZE - 1
    /\ decoder_logits[(token_count - 2) * VOCAB_SIZE + out_tokens[token_count - 1]]
           = decoder_logits[(token_count - 2) * VOCAB_SIZE + VOCAB_SIZE - 1]

\* Tokens appended by the decode loop of the current or last call.
Appended == token_count - 1

\* The last decoder run of the returned call produced no appended token: it
\* selected END, or its logits could not be read.
LastRunUnappended == Returned /\ (end_step >= 0 \/ fail_kind = "logits_read")

\* C21 (as claimed): in every call the encoder is run exactly once, the
\* decoder's hidden-state input is written once, and the number of decoder
\* runs equals the number of appended tokens.
C21_Orig ==
    (Returned /\ DecodeStateDefined /\ fail_kind = "none") =>
        /\ encoder_runs = 1 /\ hidden_writes = 1
        /\ decoder_iterations = Appended

\* C21 (amended): the encoder is run at most once per call, and exactly once
\* before the first decoder run; the decoder's hidden-state input is written
\* once before the loop and is not rewritten by any step; every step runs
\* the decoder at most once, each appended token comes from one run, and the
\* runs outnumber the appended tokens by exactly one when the last run
\* selected END or its logits could not be read.
C21_RunCounts ==
    /\ [](/\ encoder_runs <= 1 /\ hidden_writes <= 1
          /\ (ipc = "loop" \/ decoder_iterations > 0) =>
                 (encoder_runs = 1 /\ hidden_writes = 1)
          /\ DecodeStateDefined =>
                 decoder_iterations = Appended + (IF LastRunUnappended THEN 1 ELSE 0))
    /\ [][ipc = "loop" =>
             /\ encoder_runs' = encoder_runs /\ hidden_writes' = hidden_writes
             /\ dec_in_hidden' = dec_in_hidden /\ enc_out' = enc_out
             /\ decoder_iterations' \in {decoder_iterations, decoder_iterations + 1}
             /\ token_count' # token_count =>
                    (token_count' = token_count + 1
                     /\ decoder_iterations' = decoder_iterations + 1)
         ]_vars

\* A call without failure that appended three tokens and then selected END:
\* four decoder runs for three appended tokens.
C21_Witness ==
    /\ Returned /\ fail_kind = "none" /\ end_step = 3
    /\ Appended = 3 /\ decoder_iterations = 4 /\ encoder_runs = 1

\* C26: a call that has entered the decode loop returns; in the loop the
\* counter step grows by one per iteration, stays below
\* MAX_SEQUENCE_LENGTH - 1 and equals the number of decoder runs, so a call
\* performs at most MAX_SEQUENCE_LENGTH - 1 of them; the value returned is
\* token_count (0 after an exception or a failed hidden-state write), and
\* the returned prefix of out_tokens is START followed by selected tokens
\* other than END.
C26_Terminates ==
    /\ [](/\ decoder_iterations <= MAX_SEQUENCE_LENGTH - 1
          /\ ipc = "loop" => (step < MAX_SEQUENCE_LENGTH - 1 /\ decoder_iterations = step)
          /\ (Returned /\ DecodeStateDefined) =>
                 \/ ret = token_count
                 \/ ret = 0 /\ fail_kind \in {"exception", "hidden_write"}
          /\ Returned =>
                 \A i \in 0..(ret - 1) :
                     /\ i \in Positions
                     /\ out_tokens[i] \in Vocab \ {END_TOKEN_ID}
                     /\ i = 0 => out_tokens[i] = START_TOKEN_ID)
    /\ [][(ipc = "loop" /\ ipc' = "loop") => step' = step + 1]_vars
    /\ (ipc = "loop") ~> (ipc = "idle")

\* A call allowed more tokens than the sequence holds, with a decoder that
\* never selects END, has returned after the last admissible decoder run.
C26_Witness ==
    /\ Returned /\ max_tokens = MAX_SEQUENCE_LENGTH + 1
    /\ decoder_iterations = MAX_SEQUENCE_LENGTH - 1 /\ ret = MAX_SEQUENCE_LENGTH

\* C28: no step of InferTokens stores into out_tokens at an index at or
\* beyond the max_tokens of the call, or at or beyond MAX_SEQUENCE_LENGTH.
C28_WritesInCapacity ==
    [][\A i \in Positions :
          out_tokens'[i] # out_tokens[i] =>
              (i < max_tokens' /\ i < MAX_SEQUENCE_LENGTH)]_vars

(* ---------------------------------------------------------------------- *)
(* Claims about the engine lifecycle                                       *)
(* ---------------------------------------------------------------------- *)

\* C6: in every state the two backend getters agree, and once the GPU
\* attempt of an Initialize call has reported partial acceleration the
\* engine has using_gpu, encoder_using_gpu and decoder_using_gpu all false.
C6_NoMixedBackend ==
    \A e \in Engines :
        /\ IsEncoderUsingGpu(engine[e]) = IsDecoderUsingGpu(engine[e])
        /\ last_gpu[e] = "partial" =>
               /\ ~engine[e].litert_.using_gpu
               /\ ~engine[e].litert_.encoder_using_gpu
               /\ ~engine[e].litert_.decoder_using_gpu

C6_Witness ==
    \E e \in Engines :
        /\ last_gpu[e] = "partial" /\ eret[e] = "true"
        /\ engine[e].initialized_ /\ engine[e].litert_.compiled_decoder = "cpu"

\* C7: the shared GPU environment is successfully created at most once, and
\* once created it stays, across Initialize/Close cycles and concurrent
\* Initialize calls on different engines.
C7_EnvCreatedOnce ==
    /\ env_creations <= 1
    /\ g_persist_env <=> env_creations = 1

C7_Witness == ready_closes >= 2 /\ env_creations = 1 /\ g_persist_env

\* No asset handle is passed to AAsset_close more than once.
NoDoubleRelease == \A h \in Handles : asset_closes[h] <= 1

\* A step that leaves engine e alive and outside Initialize, before and
\* after: of the operations on e only Close() can change e in such a step.
OutsideInitialize(e) ==
    alive[e] /\ alive'[e] /\ epc[e] = "idle" /\ epc'[e] = "idle"

\* C8 (as claimed): no owned asset handle is closed twice, and a Close issued
\* when the engine is not initialized changes no observable state (the
\* three getters, and the open/closed state of the assets handed to it).
C8_CloseIdempotent ==
    /\ []NoDoubleRelease
    /\ [][\A e \in Engines :
             (OutsideInitialize(e) /\ ~engine[e].initialized_) =>
                 /\ IsInitialized(engine[e])' = IsInitialized(engine[e])
                 /\ IsEncoderUsingGpu(engine[e])' = IsEncoderUsingGpu(engine[e])
                 /\ IsDecoderUsingGpu(engine[e])' = IsDecoderUsingGpu(engine[e])
                 /\ \A h \in OwnedAssets(engine[e]) : asset_closes'[h] = asset_closes[h]
         ]_vars

\* The running Initialize call on engine e returns false in this step.
InitializeFails(e) == epc[e] # "idle" /\ epc'[e] = "idle" /\ eret'[e] = "false"

\* C11 (as claimed): when a started Initialize call returns false, the engine
\* holds no LiteRT object set (hence no compiled model and no tensor buffer)
\* and no asset handle.
C11_FailureUnwinds ==
    [][\A e \in Engines :
          InitializeFails(e) =>
              /\ engine'[e].litert_ = NoLiteRt
              /\ OwnedAssets(engine'[e]) = {}
      ]_vars

\* An Initialize call on the initialized, idle engine of SpecLife returns in
\* this step (eret records the value the call returned).
InitializeOnReady ==
    /\ alive[SharedSlot] /\ epc[SharedSlot] = "idle"
    /\ engine[SharedSlot].initialized_
    /\ eret'[SharedSlot] # eret[SharedSlot]

\* C12: Initialize on an already initialized engine returns false and changes
\* nothing: the engine stays initialized with the same LiteRT objects, flags
\* and asset handles, no asset is closed or taken over, and the working
\* state of InferTokens is untouched, so that the next call is accepted.
C12_RejectsSecondInit ==
    [][InitializeOnReady =>
          /\ eret'[SharedSlot] = "false"
          /\ epc'[SharedSlot] = "idle"
          /\ engine'[SharedSlot] = engine[SharedSlot]
          /\ IsInitialized(engine'[SharedSlot])
          /\ asset_closes' = asset_closes
          /\ next_asset' = next_asset
          /\ inferVars' = inferVars
      ]_vars

\* An InferTokens call runs on the engine after one Initialize call on it was
\* rejected (engine steps are taken between InferTokens calls only).
C12_Witness ==
    /\ engine[SharedSlot].initialized_ /\ eret[SharedSlot] = "false"
    /\ ipc = "loop" /\ token_count = 2

\* C13: an InferTokens call on an engine that is not initialized returns 0,
\* writes no token and leaves the engine not initialized; the engine becomes
\* initialized only in the step in which an Initialize call returns true.
C13_UnusableUntilInit ==
    [][/\ (calls' # calls /\ ~engine[SharedSlot].initialized_) =>
              /\ ret' = 0 /\ ipc' = "idle"
              /\ out_tokens' = out_tokens
              /\ ~IsInitialized(engine'[SharedSlot])
       /\ (~IsInitialized(engine[SharedSlot]) /\ IsInitialized(engine'[SharedSlot])) =>
              /\ epc[SharedSlot] # "idle" /\ epc'[SharedSlot] = "idle"
              /\ eret'[SharedSlot] = "true"
      ]_vars

\* The first call ran on the initialized engine (it appended a token), the
\* engine was closed, and the second call returned 0 without a failure.
C13_Witness ==
    /\ calls = 2 /\ ipc = "idle" /\ ret = 0 /\ fail_kind = "none"
    /\ out_tokens[1] # 0
    /\ ~engine[SharedSlot].initialized_ /\ ready_closes = 1

\* C14: no step of InferTokens, whatever its outcome, changes the engine's
\* lifecycle state: initialized_, the LiteRT objects (compiled models, tensor
\* buffer sets, backend flags), the asset handles, the shared environment.
C14_InferKeepsLifecycle ==
    [][(calls' # calls \/ ipc = "loop") =>
          /\ engine' = engine
          /\ alive' = alive
          /\ asset_closes' = asset_closes
          /\ g_persist_env' = g_persist_env
      ]_vars

\* The first call failed in the decode loop after appending a token (no
\* clean call is on record), the engine was not closed, and the second call
\* is in its decode loop.
C14_Witness ==
    /\ calls = 2 /\ ipc = "loop" /\ ~ref.set /\ out_tokens[1] # 0
    /\ ready_closes = 0 /\ engine[SharedSlot].initialized_

\* Both compiled models exist / all four tensor buffer sets exist.
BothCompiled(lr) == lr.compiled_encoder # "none" /\ lr.compiled_decoder # "none"
AllBuffers(lr) ==
    /\ lr.encoder_input_buffers /\ lr.encoder_output_buffers
    /\ lr.decoder_input_buffers /\ lr.decoder_output_buffers

\* C22: Initialize reaches buffer creation only from the compile stage and
\* with both models compiled, the warmup only from buffer creation and with
\* all four buffer sets, and initialized_ becomes true only in the step in
\* which the warmup succeeds and Initialize returns true; in every state
\* with IsInitialized() both compiled models and all four buffer sets exist.
C22_InitOrder ==
    /\ [](\A e \in Engines :
              /\ epc[e] = "buffers" => BothCompiled(engine[e].litert_)
              /\ epc[e] = "warmup" =>
                     (BothCompiled(engine[e].litert_) /\ AllBuffers(engine[e].litert_))
              /\ IsInitialized(engine[e]) =>
                     /\ engine[e].litert_.present
                     /\ BothCompiled(engine[e].litert_)
                     /\ AllBuffers(engine[e].litert_))
    /\ [][\A e \in Engines :
              /\ (epc[e] # "buffers" /\ epc'[e] = "buffers") => epc[e] = "compile"
              /\ (epc[e] # "warmup" /\ epc'[e] = "warmup") => epc[e] = "buffers"
              /\ (~IsInitialized(engine[e]) /\ IsInitialized(engine'[e])) =>
                     /\ epc[e] = "warmup" /\ epc'[e] = "idle" /\ eret'[e] = "true"
                     /\ BothCompiled(engine[e].litert_) /\ AllBuffers(engine[e].litert_)
         ]_vars

\* An engine initialized on the GPU while the other engine's Initialize has
\* compiled and waits at buffer creation.
C22_Witness ==
    \E e, o \in Engines :
        /\ e # o
        /\ IsInitialized(engine[e]) /\ engine[e].litert_.compiled_encoder = "gpu"
        /\ epc[o] = "buffers"

\* C23: an engine that Initialize declared ready has passed a warmup in
\* which every step of one full forward pass succeeded, the read of the
\* decoder output (logits) included.
C23_WarmupFullPass ==
    \A e \in Engines :
        (IsInitialized(engine[e]) /\ eret[e] = "true") => last_warmup[e] = "ok"

\* C30: whenever no Initialize call is running on an engine, a backend
\* getter of that engine reporting GPU implies that the engine is
\* initialized.
C30_GpuOnlyWhenReady ==
    \A e \in Engines :
        (alive[e] /\ epc[e] = "idle"
            /\ (IsEncoderUsingGpu(engine[e]) \/ IsDecoderUsingGpu(engine[e])))
        => IsInitialized(engine[e])

(* ---------------------------------------------------------------------- *)
(* Claims about the JNI boundary                                           *)
(* ---------------------------------------------------------------------- *)

\* The shared engine exists and is initialized.
SharedEngineReady == g_ocrInference # 0 /\ engine[g_ocrInference].initialized_

\* Thread t completes the locked part of nativeOcrClose in this step.
ClosesNow(t) == tpc[t] = "close_locked" /\ tpc'[t] = "idle"

\* C9: a nativeOcrClose that finds more than one active client only
\* decrements the count and leaves the engine initialized; the engine stops
\* being ready only in a nativeOcrClose that finds at most one active
\* client, and that close leaves the count at 0.
C9_RefCounted ==
    [][/\ \A t \in Threads :
             ClosesNow(t) =>
                 /\ g_activeOcrClients > 1 =>
                        /\ g_activeOcrClients' = g_activeOcrClients - 1
                        /\ SharedEngineReady /\ SharedEngineReady'
                        /\ engine' = engine /\ g_ocrInference' = g_ocrInference
                 /\ g_activeOcrClients <= 1 =>
                        /\ g_activeOcrClients' = 0
                        /\ ~SharedEngineReady'
       /\ (SharedEngineReady /\ ~SharedEngineReady') =>
              \E t \in Threads : ClosesNow(t) /\ g_activeOcrClients <= 1
      ]_vars

C9_Witness ==
    /\ last_close = "deferred" /\ SharedEngineReady /\ g_activeOcrClients = 1
    /\ \A t \in Threads : tpc[t] = "idle" /\ jret[t] = "true"

\* Positions of nativeOcrInit and nativeOcrClose inside the init lock.
InitLocked == {"init_locked", "init_engine", "close_locked"}

\* C10: at most one caller is inside the init lock; a nativeOcrInit that
\* finds the engine ready returns success, adds exactly one to the client
\* count and starts no Initialize; otherwise it either fails before creating
\* an engine or performs the real initialization, which on success sets the
\* count to 1; Initialize is never started while the engine is ready.
C10_InitOnce ==
    /\ [](Cardinality({t \in Threads : tpc[t] \in InitLocked}) <= 1)
    /\ [][/\ \A t \in Threads :
                /\ (tpc[t] = "init_locked" /\ tpc'[t] # "init_locked") =>
                       IF SharedEngineReady
                       THEN /\ tpc'[t] = "idle" /\ jret'[t] = "true"
                            /\ g_activeOcrClients' = g_activeOcrClients + 1
                            /\ real_inits' = real_inits
                            /\ engine' = engine /\ g_ocrInference' = g_ocrInference
                       ELSE /\ g_activeOcrClients' = g_activeOcrClients
                            /\ \/ tpc'[t] = "init_engine" /\ real_inits' = real_inits + 1
                               \/ /\ tpc'[t] = "idle" /\ jret'[t] = "false"
                                  /\ real_inits' = real_inits
                /\ (tpc[t] = "init_engine" /\ tpc'[t] = "idle" /\ jret'[t] = "true") =>
                       (g_activeOcrClients' = 1 /\ SharedEngineReady')
          /\ real_inits' # real_inits => ~SharedEngineReady
         ]_vars

C10_Witness ==
    /\ \A t \in Threads : tpc[t] = "idle" /\ jret[t] = "true"
    /\ real_inits = 1 /\ g_activeOcrClients = NumThreads /\ SharedEngineReady

\* Positions of nativeRecognizeText inside the inference lock.
RecInside == {"rec_locked", "rec_infer"}

\* The step belongs to an inference call: InferTokens starts or iterates, or
\* the image buffer or the token buffer is written.
InferenceStep ==
    \/ calls' # calls
    \/ ipc = "loop"
    \/ g_imageBuffer' # g_imageBuffer
    \/ out_tokens' # out_tokens

\* C15: at most one nativeRecognizeText call is between taking the
\* inference lock and returning, that call holds g_inferenceMutex from
\* before the initialized check to its return, and every step that runs
\* InferTokens or touches the image or token buffer is taken by the one call
\* that holds the lock.
C15_OneInference ==
    /\ [](/\ Cardinality({t \in Threads : tpc[t] \in RecInside}) <= 1
          /\ \A t \in Threads : tpc[t] \in RecInside <=> g_inferenceMutex = t
          /\ ipc = "loop" => \E t \in Threads : tpc[t] = "rec_infer")
    /\ [][InferenceStep =>
             \E t \in Threads :
                 /\ g_inferenceMutex = t /\ tpc[t] \in RecInside
                 /\ \A u \in Threads \ {t} : tpc[u] = "idle" /\ tpc'[u] = "idle"
         ]_vars

\* One thread is in the decode loop after another thread's call has
\* returned a non-empty text.
C15_Witness ==
    \E t, u \in Threads :
        /\ t # u /\ tpc[t] = "rec_infer" /\ ipc = "loop" /\ calls = 2
        /\ tpc[u] = "idle" /\ rret[u] # <<>>

C27_NoTeardownInFlight ==
    [][\A t \in Threads :
          (tpc[t] = "rec_infer" /\ tpc'[t] = "rec_infer") =>
              /\ g_ocrInference' = g_ocrInference
              /\ alive' = alive
              /\ engine' = engine
              /\ g_buffersSized' = g_buffersSized
      ]_vars

(* ---------------------------------------------------------------------- *)
(* Claims about the compile stage                                          *)
(* ---------------------------------------------------------------------- *)

\* C16 (as claimed): an attempted TryCompileWithGpu returns true exactly when
\* both models compile and both positively report full acceleration; a
\* report of "not fully accelerated" or a missing report makes it fail.
C16_GpuNeedsFullReport ==
    (cpc = "done" /\ c_res.tried.gpu_attempts = 1) =>
        (c_res.tried.gpu_ok <=>
            /\ c_gpu.opts_ok /\ c_gpu.enc_compiled /\ c_gpu.dec_compiled
            /\ c_gpu.enc_accel = "full" /\ c_gpu.dec_accel = "full")

\* C17: the GPU is attempted once when the OpenCL library is present and
\* never otherwise; the CPU is attempted exactly once when the library is
\* absent or the GPU attempt returned false, and never after a GPU success;
\* the compile stage fails only when the CPU attempt was made and failed.
C17_SingleShotFallback ==
    cpc = "done" =>
        /\ c_res.tried.gpu_attempts = (IF c_opencl THEN 1 ELSE 0)
        /\ c_res.tried.cpu_attempts =
               (IF ~c_opencl \/ ~c_res.tried.gpu_ok THEN 1 ELSE 0)
        /\ c_res.tried.gpu_ok => (c_res.tried.cpu_attempts = 0 /\ c_res.ok)
        /\ ~c_res.ok <=> (c_res.tried.cpu_attempts = 1 /\ ~c_res.tried.cpu_ok)
        /\ c_res.ok => (c_res.litert.using_gpu <=> c_res.tried.gpu_ok)

\* The library is absent and the CPU compilation, attempted once, succeeds.
C17_Witness ==
    /\ cpc = "done" /\ ~c_opencl
    /\ c_res.tried.gpu_attempts = 0 /\ c_res.tried.cpu_attempts = 1
    /\ c_res.ok /\ c_res.litert.compiled_encoder = "cpu"

\* C18 (as claimed): for every hardware_concurrency value the thread count
\* of a CPU compilation is min(h, 4) raised to at least 2, so it lies in
\* [2, 4].
C18_ThreadCountInRange ==
    (cpc = "done" /\ c_res.tried.cpu_attempts = 1) =>
        /\ c_threads = (IF Min(c_hw, 4) < 2 THEN 2 ELSE Min(c_hw, 4))
        /\ c_threads >= 2 /\ c_threads <= 4

\* C24: whenever the compile stage of Initialize succeeds, on the GPU or on
\* the CPU, the pages of both the encoder and the decoder byte buffers have
\* been handed to ReleaseSystemPages.
C24_AdvisedOnSuccess ==
    (cpc = "done" /\ c_res.ok) => c_res.tried.advised = {"encoder", "decoder"}

\* C25: the encoder compilation task is launched at most once per compile
\* stage, and only by a TryCompileWithGpu that got past its early returns;
\* once TryCompileWithGpu is past the get() or has been left by an
\* exception, the task has finished and its future is consumed, so no task
\* runs when the result checks, the CPU fallback and everything after the
\* compile stage (buffer creation, Close) execute.
C25_TaskJoined ==
    /\ [](/\ bg_launches <= 1
          /\ bg_launches = 0 <=> bg_task = "none"
          /\ bg_launches = 1 => GpuLaunches(c_opencl, c_gpu)
          /\ cpc \in {"gpu_checks", "done", "thrown"} => bg_task \in {"none", "joined"})
    /\ [][(cpc' = "done" /\ cpc # "done") =>
              (bg_task \in {"none", "joined"} /\ bg_task' = bg_task)]_vars

\* The GPU attempt launched the task, joined it and failed; the CPU
\* fallback then compiled both models.
C25_Witness ==
    /\ cpc = "done" /\ bg_task = "joined" /\ bg_launches = 1
    /\ c_res.tried.cpu_attempts = 1 /\ c_res.ok

====
